---- MODULE Spec2Model ----
(***************************************************************************)
(* A model of the MIME decoding core of go-smtpsrv (ParseEmail and the     *)
(* functions it calls).                                                    *)
(*                                                                         *)
(* Go strings and byte slices are sequences of byte values 0..255; the     *)
(* operator B turns a TLA+ string literal into such a sequence.  A result  *)
(* of a charset transcoder is a sequence of code points: an ASCII byte is  *)
(* its own code point, a byte >= 128 read under charset number k of the    *)
(* decoders table is the code point 256 * k + b (the tables are injective, *)
(* the model keeps that and not the Unicode numbers).                      *)
(***************************************************************************)
EXTENDS Integers, Sequences, FiniteSets, TLC

VARIABLES
    mode,       \* which entry point this behaviour exercises
    sIn,        \* decodeMimeSentence: the argument s
    sOut,       \* decodeMimeSentence: the outcome, once it has returned
    header,     \* createEmailFromHeader: raw value of every header field
    hpErr,      \* createEmailFromHeader: hp.err of the caller's headerParser
    hfield,     \* createEmailFromHeader: the typed fields of email set so far
    hpc,        \* createEmailFromHeader: index of the next assignment
    hret,       \* createEmailFromHeader: the returned err, once returned
    msg,        \* ParseEmail: the message read from r
    pc,         \* ParseEmail: where the call stands
    stack,      \* ParseEmail: the frames of the multipart handlers, innermost last
    ret,        \* ParseEmail: the values a handler has just returned to its caller
    email,      \* ParseEmail: the result email
    perr,       \* ParseEmail: the result err
    clock,      \* the last reading of time.Now().UnixNano()
    nproc,      \* ParseEmail: how many parts NextPart has handed out
    ctHeader,   \* sanitizeContentTypeHeader: the header value of the first call
    sanitized   \* sanitizeContentTypeHeader: the results of the calls so far

sentenceVars == <<sIn, sOut>>
headerVars == <<header, hpErr, hfield, hpc, hret>>
parseVars == <<msg, pc, stack, ret, email, perr, clock, nproc>>
sanitizeVars == <<ctHeader, sanitized>>
vars == <<mode, sentenceVars, headerVars, parseVars, sanitizeVars>>

(***************************************************************************)
(* Bytes and strings                                                       *)
(***************************************************************************)
\* the printable ASCII characters 32..95 and 97..126, in byte order
AsciiLow == " !\"#$%&'(" \o ")*+,-./0123456789:;<=>?@ABCDEFGHIJKLMNOPQRSTUVWXYZ[\\]^_"
AsciiHigh == "abcdefghijklmnopqrstuvwxyz{|}~"

OrdTable ==
    [c \in {SubSeq(AsciiLow, i, i) : i \in 1..Len(AsciiLow)}
            \cup {SubSeq(AsciiHigh, i, i) : i \in 1..Len(AsciiHigh)}
            \cup {"\n", "\r", "\t"} |->
        IF c = "\n" THEN 10
        ELSE IF c = "\r" THEN 13
        ELSE IF c = "\t" THEN 9
        ELSE IF \E i \in 1..Len(AsciiLow) : SubSeq(AsciiLow, i, i) = c
             THEN 31 + (CHOOSE i \in 1..Len(AsciiLow) : SubSeq(AsciiLow, i, i) = c)
             ELSE 96 + (CHOOSE i \in 1..Len(AsciiHigh) : SubSeq(AsciiHigh, i, i) = c)]

Ord(c) == OrdTable[c]

B(str) == [i \in 1..Len(str) |-> Ord(SubSeq(str, i, i))]

\* strings.HasPrefix / strings.HasSuffix
HasPrefix(s, p) == Len(s) >= Len(p) /\ SubSeq(s, 1, Len(p)) = p
HasSuffix(s, p) == Len(s) >= Len(p) /\ SubSeq(s, Len(s) - Len(p) + 1, Len(s)) = p

\* strings.ToLower on ASCII bytes
LowerByte(b) == IF b >= 65 /\ b <= 90 THEN b + 32 ELSE b
ToLower(s) == [i \in 1..Len(s) |-> LowerByte(s[i])]

\* strings.Count(s, c) for a one-byte c
Count(s, c) == Cardinality({i \in 1..Len(s) : s[i] = c})

\* index of the first byte of s that is c, 0 when there is none
IndexByte(s, c) == IF \E i \in 1..Len(s) : s[i] = c
                   THEN CHOOSE i \in 1..Len(s) : s[i] = c /\ \A j \in 1..(i - 1) : s[j] # c
                   ELSE 0

\* strings.Split(s, sep) for a one-byte sep: always at least one piece
RECURSIVE Split(_, _)
Split(s, c) == LET i == IndexByte(s, c)
               IN  IF i = 0 THEN <<s>>
                   ELSE <<SubSeq(s, 1, i - 1)>> \o Split(SubSeq(s, i + 1, Len(s)), c)

\* strings.Join(parts, sep)
RECURSIVE Join(_, _)
Join(parts, sep) == IF Len(parts) = 0 THEN <<>>
                    ELSE IF Len(parts) = 1 THEN parts[1]
                    ELSE parts[1] \o sep \o Join(Tail(parts), sep)

\* strings.Trim(s, cutset): cutset is a set of bytes
RECURSIVE TrimLeft(_, _)
TrimLeft(s, cut) == IF Len(s) > 0 /\ s[1] \in cut THEN TrimLeft(Tail(s), cut) ELSE s
RECURSIVE TrimRight(_, _)
TrimRight(s, cut) == IF Len(s) > 0 /\ s[Len(s)] \in cut
                     THEN TrimRight(SubSeq(s, 1, Len(s) - 1), cut) ELSE s
Trim(s, cut) == TrimRight(TrimLeft(s, cut), cut)

\* strings.TrimSuffix(s, suffix)
TrimSuffix(s, suf) == IF HasSuffix(s, suf) THEN SubSeq(s, 1, Len(s) - Len(suf)) ELSE s

ByteSet(str) == {Ord(SubSeq(str, i, i)) : i \in 1..Len(str)}

\* the characters the decoders test for
chEq == Ord("=")
chQm == Ord("?")
chUnderscore == Ord("_")
chLowerB == Ord("b")
chLowerQ == Ord("q")
chSemicolon == Ord(";")
EncodedWordOpen == B("=?")
EncodedWordClose == B("?=")
NameUtf8 == B("utf-8")
NameLatin1 == B("iso-8859-1")
NameAscii == B("us-ascii")
NameKoi8r == B("koi8-r")
NameBase64 == B("base64")
Name7bit == B("7bit")
Name8bit == B("8bit")
NameQuotedPrintable == B("quoted-printable")
chSlash == Ord("/")
SemicolonSpace == B("; ")
TSpecials == ByteSet("()<>@,;:\\\"/[]?=")
MessageIdCutset == ByteSet("<> ")
AngleBrackets == ByteSet("<>")
AttachmentPrefix == B("attachment-")
MailboxABC == B("a@b.c")
MailboxDEF == B("d@e.f")
NameAnn == B("Ann")

(***************************************************************************)
(* encoding/base64, StdEncoding.DecodeString: CR and LF are skipped, the   *)
(* input is read in quanta of four characters, padding is required and may *)
(* only end the input.                                                     *)
(***************************************************************************)
IsB64Char(b) == \/ (b >= 65 /\ b <= 90) \/ (b >= 97 /\ b <= 122)
                \/ (b >= 48 /\ b <= 57) \/ b = 43 \/ b = 47

B64Val(b) == IF b >= 65 /\ b <= 90 THEN b - 65
             ELSE IF b >= 97 /\ b <= 122 THEN b - 71
             ELSE IF b >= 48 /\ b <= 57 THEN b + 4
             ELSE IF b = 43 THEN 62 ELSE 63

NotCRLF(b) == b # 10 /\ b # 13

RECURSIVE B64Quanta(_)
B64Quanta(s) ==
    IF Len(s) = 0 THEN [err |-> FALSE, bytes |-> <<>>]
    ELSE IF Len(s) < 4 THEN [err |-> TRUE, bytes |-> <<>>]
    ELSE LET a == s[1]  b == s[2]  c == s[3]  d == s[4]
             last == Len(s) = 4
             pad == chEq
             n == B64Val(a) * 262144 + B64Val(b) * 4096
                  + (IF c = pad THEN 0 ELSE B64Val(c) * 64)
                  + (IF d = pad THEN 0 ELSE B64Val(d))
             b1 == n \div 65536
             b2 == (n \div 256) % 256
             b3 == n % 256
         IN  IF ~IsB64Char(a) \/ ~IsB64Char(b) THEN [err |-> TRUE, bytes |-> <<>>]
             ELSE IF c = pad
                  THEN IF d = pad /\ last THEN [err |-> FALSE, bytes |-> <<b1>>]
                       ELSE [err |-> TRUE, bytes |-> <<>>]
             ELSE IF ~IsB64Char(c) THEN [err |-> TRUE, bytes |-> <<>>]
             ELSE IF d = pad
                  THEN IF last THEN [err |-> FALSE, bytes |-> <<b1, b2>>]
                       ELSE [err |-> TRUE, bytes |-> <<>>]
             ELSE IF ~IsB64Char(d) THEN [err |-> TRUE, bytes |-> <<>>]
             ELSE LET rest == B64Quanta(SubSeq(s, 5, Len(s)))
                  IN  IF rest.err THEN rest
                      ELSE [err |-> FALSE, bytes |-> <<b1, b2, b3>> \o rest.bytes]

Base64Decode(s) == B64Quanta(SelectSeq(s, NotCRLF))

(***************************************************************************)
(* mime/quotedprintable, Reader read to the end by io.ReadAll: the input   *)
(* is taken line by line; trailing white space of a line is dropped, a     *)
(* trailing "=" is a soft line break, "=" before two hex digits is a byte, *)
(* "=" before anything else inside a line is a literal "=".                *)
(***************************************************************************)
IsHex(b) == (b >= 48 /\ b <= 57) \/ (b >= 65 /\ b <= 70) \/ (b >= 97 /\ b <= 102)

HexVal(b) == IF b >= 48 /\ b <= 57 THEN b - 48
             ELSE IF b >= 65 /\ b <= 70 THEN b - 55 ELSE b - 87

LF == <<10>>
CRLF == <<13, 10>>
QPWhitespace == {32, 10, 13, 9}

RECURSIVE QPLine(_)
QPLine(line) ==
    IF Len(line) = 0 THEN [err |-> FALSE, bytes |-> <<>>]
    ELSE LET b == line[1]
             hexOK == Len(line) >= 3 /\ IsHex(line[2]) /\ IsHex(line[3])
             literal == LET rest == QPLine(Tail(line))
                        IN  [err |-> rest.err, bytes |-> <<b>> \o rest.bytes]
         IN  IF b = chEq
             THEN IF hexOK
                  THEN LET rest == QPLine(SubSeq(line, 4, Len(line)))
                       IN  [err |-> rest.err,
                            bytes |-> <<HexVal(line[2]) * 16 + HexVal(line[3])>> \o rest.bytes]
                  ELSE IF Len(line) >= 2 /\ line[2] # 13 /\ line[2] # 10
                       THEN literal
                       ELSE [err |-> TRUE, bytes |-> <<>>]
             ELSE IF b = 9 \/ b = 13 \/ b = 10 THEN literal
             ELSE IF b >= 128 THEN literal
             ELSE IF b < 32 \/ b > 126 THEN [err |-> TRUE, bytes |-> <<>>]
             ELSE literal

RECURSIVE QPDecode(_)
QPDecode(s) ==
    IF Len(s) = 0 THEN [err |-> FALSE, bytes |-> <<>>]
    ELSE LET i == IndexByte(s, 10)
             whole == IF i = 0 THEN s ELSE SubSeq(s, 1, i)
             rest == IF i = 0 THEN <<>> ELSE SubSeq(s, i + 1, Len(s))
             atEOF == i = 0
             hasLF == HasSuffix(whole, LF)
             hasCR == HasSuffix(whole, CRLF)
             stripped == TrimRight(whole, QPWhitespace)
             soft == HasSuffix(stripped, <<chEq>>)
             rightStripped == SubSeq(whole, Len(stripped) + 1, Len(whole))
             line == IF soft THEN SubSeq(stripped, 1, Len(stripped) - 1)
                     ELSE IF hasLF THEN stripped \o (IF hasCR THEN CRLF ELSE LF)
                     ELSE stripped
             softErr == /\ soft
                        /\ ~HasPrefix(rightStripped, LF)
                        /\ ~HasPrefix(rightStripped, CRLF)
                        /\ ~(Len(rightStripped) = 0 /\ Len(line) > 0 /\ atEOF)
             here == QPLine(line)
         IN  IF here.err \/ softErr THEN [err |-> TRUE, bytes |-> here.bytes]
             ELSE LET more == QPDecode(rest)
                  IN  [err |-> more.err, bytes |-> here.bytes \o more.bytes]

(***************************************************************************)
(* golang.org/x/text/encoding/charmap: a single-byte decoder.  Every byte  *)
(* has a mapping; k is the charset's place in the decoders table.          *)
(***************************************************************************)
Charsets == <<B("windows-1252"), NameLatin1, NameKoi8r, B("windows-1251")>>

CharsetIndex(name) == IF \E k \in 1..Len(Charsets) : Charsets[k] = name
                      THEN CHOOSE k \in 1..Len(Charsets) : Charsets[k] = name
                      ELSE 0

CharmapByte(k, b) == IF b < 128 THEN b ELSE 256 * k + b
Charmap(k, s) == [i \in 1..Len(s) |-> CharmapByte(k, s[i])]

(***************************************************************************)
(* mime.WordDecoder.Decode with a nil CharsetReader                        *)
(***************************************************************************)
RuneError == 65533

\* qDecode of mime/encodedword.go
RECURSIVE QDecode(_)
QDecode(s) ==
    IF Len(s) = 0 THEN [err |-> FALSE, bytes |-> <<>>]
    ELSE LET c == s[1]
             one(b) == LET rest == QDecode(Tail(s))
                       IN  [err |-> rest.err, bytes |-> <<b>> \o rest.bytes]
         IN  IF c = chUnderscore THEN one(32)
             ELSE IF c = chEq
                  THEN IF Len(s) < 3 \/ ~IsHex(s[2]) \/ ~IsHex(s[3])
                       THEN [err |-> TRUE, bytes |-> <<>>]
                       ELSE LET rest == QDecode(SubSeq(s, 4, Len(s)))
                            IN  [err |-> rest.err,
                                 bytes |-> <<HexVal(s[2]) * 16 + HexVal(s[3])>> \o rest.bytes]
             ELSE IF (c <= 126 /\ c >= 32) \/ c = 10 \/ c = 13 \/ c = 9 THEN one(c)
             ELSE [err |-> TRUE, bytes |-> <<>>]

IsCont(s, i) == Len(s) >= i /\ s[i] >= 128 /\ s[i] <= 191

\* the utf-8 case of WordDecoder.convert: valid sequences are copied, any
\* other byte becomes U+FFFD
RECURSIVE Utf8Copy(_)
Utf8Copy(s) ==
    IF Len(s) = 0 THEN <<>>
    ELSE LET b == s[1]
             n == IF b < 128 THEN 1
                  ELSE IF b >= 194 /\ b <= 223 /\ IsCont(s, 2) THEN 2
                  ELSE IF b >= 224 /\ b <= 239 /\ IsCont(s, 2) /\ IsCont(s, 3) THEN 3
                  ELSE IF b >= 240 /\ b <= 244 /\ IsCont(s, 2) /\ IsCont(s, 3) /\ IsCont(s, 4) THEN 4
                  ELSE 0
         IN  IF n = 0 THEN <<RuneError>> \o Utf8Copy(Tail(s))
             ELSE SubSeq(s, 1, n) \o Utf8Copy(SubSeq(s, n + 1, Len(s)))

WordConvert(charset, content) ==
    LET cs == ToLower(charset)
    IN  IF cs = NameUtf8 THEN [err |-> FALSE, str |-> Utf8Copy(content)]
        ELSE IF cs = NameLatin1
             THEN [err |-> FALSE, str |-> Charmap(CharsetIndex(NameLatin1), content)]
        ELSE IF cs = NameAscii
             THEN [err |-> FALSE,
                   str |-> [i \in 1..Len(content) |->
                               IF content[i] >= 128 THEN RuneError ELSE content[i]]]
        ELSE [err |-> TRUE, str |-> <<>>]

ConvertContent(charset, content) ==
    IF content.err THEN [err |-> TRUE, str |-> <<>>]
    ELSE WordConvert(charset, content.bytes)

\* WordDecoder.Decode on the three fields of =?charset?encoding?text?=
DecodeFields(charset, encoding, text) ==
    IF Len(charset) = 0 \/ Len(encoding) # 1 THEN [err |-> TRUE, str |-> <<>>]
    ELSE ConvertContent(charset,
             IF LowerByte(encoding[1]) = chLowerB THEN Base64Decode(text)
             ELSE IF LowerByte(encoding[1]) = chLowerQ THEN QDecode(text)
             ELSE [err |-> TRUE, bytes |-> <<>>])

WordDecode(word) ==
    IF \/ Len(word) < 8
       \/ ~HasPrefix(word, EncodedWordOpen)
       \/ ~HasSuffix(word, EncodedWordClose)
       \/ Count(word, chQm) # 4
    THEN [err |-> TRUE, str |-> <<>>]
    ELSE LET fields == Split(SubSeq(word, 3, Len(word) - 2), chQm)
         IN  DecodeFields(fields[1], fields[2], fields[3])

(***************************************************************************)
(* decodeKoi8 and decodeMimeSentence.  A slice expression out of range     *)
(* panics: panic |-> TRUE is that outcome.                                 *)
(***************************************************************************)
prefixLen == 11

Koi8Marker == B("=?koi8-r")

Koi8Decoded(decodedOrigin) ==
    IF decodedOrigin.err THEN [panic |-> FALSE, ok |-> FALSE, str |-> <<>>]
    ELSE [panic |-> FALSE, ok |-> TRUE,
          str |-> Charmap(CharsetIndex(NameKoi8r), decodedOrigin.bytes)]

\* decodeKoi8 once both slices are taken
Koi8Sliced(prefix, origin) ==
    Koi8Decoded(IF prefix[prefixLen - 1] = chLowerB THEN Base64Decode(origin)
                ELSE IF prefix[prefixLen - 1] = chLowerQ THEN QPDecode(origin)
                ELSE [err |-> TRUE, bytes |-> <<>>])

DecodeKoi8(s) ==
    IF ~HasPrefix(ToLower(s), Koi8Marker) THEN [panic |-> FALSE, ok |-> FALSE, str |-> <<>>]
    ELSE IF Len(s) < prefixLen                   \* s[0:prefixLen]
         THEN [panic |-> TRUE, ok |-> FALSE, str |-> <<>>]
    ELSE IF Len(s) - 2 < prefixLen               \* s[prefixLen:(len(s) - 2)]
         THEN [panic |-> TRUE, ok |-> FALSE, str |-> <<>>]
    ELSE Koi8Sliced(ToLower(SubSeq(s, 1, prefixLen)), SubSeq(s, prefixLen + 1, Len(s) - 2))

\* the loop body of decodeMimeSentence: result after one more word
\* the loop of decodeMimeSentence if it put no space before a literal token
AppendDecodedWithoutSpace(result, word, d) ==
    Append(result, IF d.err THEN word ELSE d.str)

AppendDecoded(result, word, d) ==
    Append(result, IF d.err
                   THEN IF Len(result) = 0 THEN word ELSE <<32>> \o word
                   ELSE d.str)

AppendWord(result, word) == AppendDecoded(result, word, WordDecode(word))

RECURSIVE DecodeWords(_, _)
DecodeWords(result, ss) ==
    IF Len(ss) = 0 THEN result
    ELSE DecodeWords(AppendWord(result, ss[1]), Tail(ss))

SentenceAfterKoi8(s, k) ==
    IF k.panic THEN [panic |-> TRUE, path |-> "koi8", str |-> <<>>]
    ELSE IF k.ok THEN [panic |-> FALSE, path |-> "koi8", str |-> k.str]
    ELSE [panic |-> FALSE, path |-> "general",
          str |-> Join(DecodeWords(<<>>, Split(s, 32)), <<>>)]

DecodeMimeSentence(s) == SentenceAfterKoi8(s, DecodeKoi8(s))

(***************************************************************************)
(* Entry point 1: one call of decodeMimeSentence                           *)
(***************************************************************************)
MaxTail == 6
MaxTokens == 3

RECURSIVE SeqsUpTo(_, _)
SeqsUpTo(S, n) == IF n = 0 THEN {<<>>}
                  ELSE LET shorter == SeqsUpTo(S, n - 1)
                       IN  shorter \cup {Append(q, x) : q \in shorter, x \in S}

\* values that start with the KOI8-R marker, of every length up to MaxTail more
TailAlphabet == ByteSet("?=BQY")
Koi8Inputs == {Koi8Marker \o tl : tl \in SeqsUpTo(TailAlphabet, MaxTail)}
              \cup {B("=?KOI8-R?B?aGVsbG8=?="), B("=?Koi8-R?q?=F4=ED?="),
                    B("=?koi8-r?B?YQ==?= =?utf-8?Q?x?=")}

\* values made of space-separated tokens
Tokens == {<<>>, B("online"), B("=?utf-8?Q?x?="), B("=?UTF-8?b?eXo=?="),
           B("=?utf-8?Q?x"), B("=?iso-8859-1?q?=E9?="), B("=?utf-8?X?a?="),
           B("=?koi8-u?Q?a?=")}
TokenInputs == {Join(ts, <<32>>) : ts \in SeqsUpTo(Tokens, MaxTokens)}

NoOutcome == [panic |-> FALSE, path |-> "none", str |-> <<>>]

HeaderIdle == /\ header = <<>> /\ hpErr = "nil" /\ hfield = <<>> /\ hpc = 0
              /\ hret = "running"

SentenceIdle == sIn = <<>> /\ sOut = NoOutcome

ParseIdle == /\ msg = <<>> /\ pc = "idle" /\ stack = <<>> /\ ret = <<>> /\ email = <<>>
             /\ perr = <<>> /\ clock = 0 /\ nproc = 0

SanitizeIdle == ctHeader = <<>> /\ sanitized = <<>>

InitSentence == /\ mode = "sentence"
                /\ sIn \in Koi8Inputs \cup TokenInputs
                /\ sOut = NoOutcome
                /\ HeaderIdle
                /\ ParseIdle
                /\ SanitizeIdle

\* the call on the KOI8-R fast path (it returns, or panics, inside decodeKoi8)
CallKoi8 == /\ mode = "sentence" /\ sOut.path = "none"
            /\ LET r == DecodeMimeSentence(sIn)
               IN  r.path = "koi8" /\ sOut' = r
            /\ UNCHANGED <<mode, sIn, headerVars, parseVars, sanitizeVars>>

\* the call on the general path
CallGeneral == /\ mode = "sentence" /\ sOut.path = "none"
               /\ LET r == DecodeMimeSentence(sIn)
                  IN  r.path = "general" /\ sOut' = r
               /\ UNCHANGED <<mode, sIn, headerVars, parseVars, sanitizeVars>>

NextSentence == CallKoi8 \/ CallGeneral

SpecSentence == InitSentence /\ [][NextSentence]_vars

(***************************************************************************)
(* Entry point 2: createEmailFromHeader and the headerParser               *)
(***************************************************************************)
MaxPresent == 2

\* the assignments of createEmailFromHeader, in program order
FieldOrder == <<"Subject", "From", "Sender", "Reply-To", "To", "Cc", "Bcc", "Date",
                "Resent-From", "Resent-Sender", "Resent-To", "Resent-Cc", "Resent-Bcc",
                "Resent-Message-ID", "Message-ID", "In-Reply-To", "References",
                "Resent-Date">>

Fields == {FieldOrder[i] : i \in 1..Len(FieldOrder)}

\* the function each assignment calls
FieldParser(f) ==
    IF f = "Subject" THEN "decodeMimeSentence"
    ELSE IF f \in {"Sender", "Resent-Sender"} THEN "parseAddress"
    ELSE IF f \in {"Date", "Resent-Date"} THEN "parseTime"
    ELSE IF f \in {"Resent-Message-ID", "Message-ID"} THEN "parseMessageId"
    ELSE IF f \in {"In-Reply-To", "References"} THEN "parseMessageIdList"
    ELSE "parseAddressList"

\* net/mail: the addresses a raw value parses to, as far as the values of the
\* model go; every other value is rejected by the grammar
AddrOne == B("a@b.c")
AddrNamed == B("Ann <a@b.c>")
AddrTwo == B("a@b.c, d@e.f")
AddrBad == B("bogus")
AddrBlank == B(" ")

MailParseAddressList(s) ==
    IF s = AddrOne THEN [err |-> "nil", val |-> <<[Name |-> <<>>, Address |-> MailboxABC]>>]
    ELSE IF s = AddrNamed
         THEN [err |-> "nil", val |-> <<[Name |-> NameAnn, Address |-> MailboxABC]>>]
    ELSE IF s = AddrTwo
         THEN [err |-> "nil", val |-> <<[Name |-> <<>>, Address |-> MailboxABC],
                                        [Name |-> <<>>, Address |-> MailboxDEF]>>]
    ELSE [err |-> "address", val |-> <<>>]

\* mail.ParseAddress: exactly one address
MailParseAddress(s) ==
    LET l == MailParseAddressList(s)
    IN  IF l.err = "nil" /\ Len(l.val) = 1 THEN l ELSE [err |-> "address", val |-> <<>>]

\* time.Parse: which of the four layouts of parseTime a value of the model matches
DateZeroDay == B("Mon, 02 Jan 2006 15:04:05 -0700")
DateShortDay == B("Mon, 2 Jan 2006 15:04:05 -0700")
DateZeroDayZone == B("Mon, 02 Jan 2006 15:04:05 -0700 (MST)")
DateShortDayZone == B("Mon, 2 Jan 2006 15:04:05 -0700 (MST)")
DateBad == B("yesterday")

TimeParse(layout, s) ==
    IF \/ layout = 1 /\ s = DateZeroDay
       \/ layout = 2 /\ s \in {DateZeroDay, DateShortDay}
       \/ layout = 3 /\ s = DateZeroDayZone
       \/ layout = 4 /\ s \in {DateZeroDayZone, DateShortDayZone}
    THEN [err |-> "nil", val |-> <<[layout |-> layout, text |-> s]>>]
    ELSE [err |-> "date", val |-> <<>>]

\* the methods have value receivers (func (hp headerParser) ...): a method
\* assigns to the err of its own copy of hp, the caller's hp.err stays
CallerErrAfter(callerErr, calleeErr) == callerErr

\* each method: the value returned and the err of the callee's copy at return
ParseAddress(err, s) ==
    IF err # "nil" THEN [err |-> err, val |-> <<>>]
    ELSE IF Trim(s, {32, 10}) # <<>> THEN MailParseAddress(s)
    ELSE [err |-> err, val |-> <<>>]

ParseAddressList(err, s) ==
    IF err # "nil" THEN [err |-> err, val |-> <<>>]
    ELSE IF Trim(s, {32, 10}) # <<>> THEN MailParseAddressList(s)
    ELSE [err |-> err, val |-> <<>>]

RECURSIVE TryLayouts(_, _)
TryLayouts(k, s) == LET r == TimeParse(k, s)
                    IN  IF r.err = "nil" \/ k = 4 THEN r ELSE TryLayouts(k + 1, s)

ParseTime(err, s) ==
    IF err # "nil" \/ s = <<>> THEN [err |-> err, val |-> <<>>]
    ELSE TryLayouts(1, s)

ParseMessageId(err, s) ==
    IF err # "nil" THEN [err |-> err, val |-> <<>>]
    ELSE [err |-> err, val |-> Trim(s, MessageIdCutset)]

ParseMessageIdList(err, s) ==
    IF err # "nil" THEN [err |-> err, val |-> <<>>]
    ELSE LET ps == SelectSeq(Split(s, 32), LAMBDA p : Trim(p, {32, 10}) # <<>>)
         IN  [err |-> err, val |-> [i \in 1..Len(ps) |-> ParseMessageId(err, ps[i]).val]]

ParseField(f, err, s) ==
    IF FieldParser(f) = "parseAddress" THEN ParseAddress(err, s)
    ELSE IF FieldParser(f) = "parseAddressList" THEN ParseAddressList(err, s)
    ELSE IF FieldParser(f) = "parseTime" THEN ParseTime(err, s)
    ELSE IF FieldParser(f) = "parseMessageId" THEN ParseMessageId(err, s)
    ELSE ParseMessageIdList(err, s)

\* the non-empty raw values a header of the model may hold for a field
FieldValues(f) ==
    IF FieldParser(f) = "decodeMimeSentence"
    THEN <<B("Hi"), B("=?utf-8?Q?x?= y"), Koi8Marker>>
    ELSE IF FieldParser(f) \in {"parseAddress", "parseAddressList"}
    THEN <<AddrOne, AddrTwo, AddrBad, AddrBlank>>
    ELSE IF FieldParser(f) = "parseTime"
    THEN <<DateZeroDay, DateShortDay, DateShortDayZone, DateBad>>
    ELSE IF FieldParser(f) = "parseMessageId"
    THEN <<B("<m1@x>"), B(" <m1@x> ")>>
    ELSE <<B("<m1@x>"), B("<m1@x>  <m2@x>"), AddrBlank>>

RECURSIVE SubsetsUpTo(_, _)
SubsetsUpTo(S, n) == IF n = 0 THEN {{}}
                     ELSE LET smaller == SubsetsUpTo(S, n - 1)
                          IN  smaller \cup {P \cup {x} : P \in smaller, x \in S}

Headers ==
    {[f \in Fields |-> IF f \in DOMAIN g THEN FieldValues(f)[g[f]] ELSE <<>>] :
        g \in UNION {{h \in [P -> 1..4] : \A f \in P : h[f] <= Len(FieldValues(f))} :
                        P \in SubsetsUpTo(Fields, MaxPresent)}}

NoFields == [f \in Fields |-> <<>>]

InitHeader == /\ mode = "header"
              /\ header \in Headers
              /\ hpErr = "nil"
              /\ hfield = NoFields
              /\ hpc = 1
              /\ hret = "running"
              /\ SentenceIdle
              /\ ParseIdle
              /\ SanitizeIdle

AtField(parser) == /\ mode = "header" /\ hret = "running"
                   /\ hpc \in 1..Len(FieldOrder)
                   /\ FieldParser(FieldOrder[hpc]) = parser

\* email.Subject = decodeMimeSentence(header.Get("Subject"))
SubjectStep ==
    /\ AtField("decodeMimeSentence")
    /\ LET r == DecodeMimeSentence(header["Subject"])
       IN  IF r.panic
           THEN hret' = "panic" /\ UNCHANGED <<hfield, hpc>>
           ELSE /\ hfield' = [hfield EXCEPT !["Subject"] = r.str]
                /\ hpc' = hpc + 1
                /\ UNCHANGED hret
    /\ UNCHANGED <<mode, sentenceVars, header, hpErr, parseVars, sanitizeVars>>

\* email.<field> = hp.<method>(header.Get(<field>))
FieldStep(parser) ==
    /\ AtField(parser)
    /\ LET f == FieldOrder[hpc]
           r == ParseField(f, hpErr, header[f])
       IN  /\ hfield' = [hfield EXCEPT ![f] = r.val]
           /\ hpErr' = CallerErrAfter(hpErr, r.err)
    /\ hpc' = hpc + 1
    /\ UNCHANGED <<mode, sentenceVars, header, hret, parseVars, sanitizeVars>>

AddressStep == FieldStep("parseAddress")
AddressListStep == FieldStep("parseAddressList")
TimeStep == FieldStep("parseTime")
MessageIdStep == FieldStep("parseMessageId")
MessageIdListStep == FieldStep("parseMessageIdList")

\* decodeHeaderMime never returns an error; a value on which decodeMimeSentence
\* panics ends the call
HeaderMimePanics == \E f \in Fields : DecodeMimeSentence(header[f]).panic

\* if hp.err != nil { err = hp.err; return } ... return
HeaderReturn ==
    /\ mode = "header" /\ hret = "running" /\ hpc = Len(FieldOrder) + 1
    /\ hret' = IF hpErr # "nil" THEN hpErr
               ELSE IF HeaderMimePanics THEN "panic" ELSE "nil"
    /\ hpc' = hpc + 1
    /\ UNCHANGED <<mode, sentenceVars, header, hpErr, hfield, parseVars, sanitizeVars>>

NextHeader == \/ SubjectStep \/ AddressStep \/ AddressListStep \/ TimeStep
              \/ MessageIdStep \/ MessageIdListStep \/ HeaderReturn

SpecHeader == InitHeader /\ [][NextHeader]_vars
(***************************************************************************)
(* Content types                                                           *)
(***************************************************************************)
\* index of the first occurrence of sep in s, 0 when there is none
IndexSeq(s, sep) ==
    LET hits == {i \in 1..(Len(s) - Len(sep) + 1) : SubSeq(s, i, i + Len(sep) - 1) = sep}
    IN  IF hits = {} THEN 0 ELSE CHOOSE i \in hits : \A j \in hits : i <= j

Contains(s, sep) == IndexSeq(s, sep) # 0

\* strings.Split(s, sep) for a longer separator
RECURSIVE SplitSeq(_, _)
SplitSeq(s, sep) == LET i == IndexSeq(s, sep)
                    IN  IF i = 0 THEN <<s>>
                        ELSE <<SubSeq(s, 1, i - 1)>>
                             \o SplitSeq(SubSeq(s, i + Len(sep), Len(s)), sep)

\* strings.TrimSpace on ASCII
TrimSpace(s) == Trim(s, {32, 9, 10, 13, 11, 12})

\* the loop of sanitizeContentTypeHeader without strings.ToLower on the key
RECURSIVE SanitizeLoopCaseSensitive(_, _, _)
SanitizeLoopCaseSensitive(params, seen, result) ==
    IF Len(params) = 0 THEN result
    ELSE LET p == TrimSpace(params[1])
             key == Split(p, chEq)[1]
         IN  IF p = <<>> THEN SanitizeLoopCaseSensitive(Tail(params), seen, result)
             ELSE IF Contains(p, <<chEq>>)
                  THEN IF key \in seen
                       THEN SanitizeLoopCaseSensitive(Tail(params), seen, result)
                       ELSE SanitizeLoopCaseSensitive(Tail(params), seen \cup {key},
                                                      Append(result, p))
             ELSE SanitizeLoopCaseSensitive(Tail(params), seen, Append(result, p))

\* the loop of sanitizeContentTypeHeader: params still to visit, keys seen,
\* params kept
RECURSIVE SanitizeLoop(_, _, _)
SanitizeLoop(params, seen, result) ==
    IF Len(params) = 0 THEN result
    ELSE LET p == TrimSpace(params[1])
             key == ToLower(Split(p, chEq)[1])
         IN  IF p = <<>> THEN SanitizeLoop(Tail(params), seen, result)
             ELSE IF Contains(p, <<chEq>>)
                  THEN IF key \in seen
                       THEN SanitizeLoop(Tail(params), seen, result)
                       ELSE SanitizeLoop(Tail(params), seen \cup {key}, Append(result, p))
             ELSE SanitizeLoop(Tail(params), seen, Append(result, p))

SanitizeContentTypeHeader(contentType) ==
    Join(SanitizeLoop(Split(contentType, chSemicolon), {}, <<>>), SemicolonSpace)

(***************************************************************************)
(* sanitizeContentTypeHeader on its own: header values of up to MaxParams  *)
(* pieces between semicolons, sanitized, and the result sanitized again,   *)
(* MaxCalls calls in all.                                                  *)
(***************************************************************************)
MaxParams == 3
MaxCalls == 2

RawParams ==
    {B("text/plain"), B("charset=utf-8"), B(" charset=UTF-8"), B("Charset=\"UTF-8\""),
     B(" boundary=b "), <<>>, B(" format"), B("CHARSET=a=b")}

HeaderValues == {Join(ps, <<chSemicolon>>) : ps \in SeqsUpTo(RawParams, MaxParams)}

InitSanitize == /\ mode = "sanitize"
                /\ ctHeader \in HeaderValues
                /\ sanitized = <<>>
                /\ SentenceIdle
                /\ HeaderIdle
                /\ ParseIdle

\* sanitizeContentTypeHeader(ctHeader)
CallSanitize ==
    /\ mode = "sanitize" /\ sanitized = <<>>
    /\ sanitized' = <<SanitizeContentTypeHeader(ctHeader)>>
    /\ UNCHANGED <<mode, sentenceVars, headerVars, parseVars, ctHeader>>

\* sanitizeContentTypeHeader of what the last call returned
CallSanitizeAgain ==
    /\ mode = "sanitize" /\ sanitized # <<>> /\ Len(sanitized) < MaxCalls
    /\ sanitized' = Append(sanitized, SanitizeContentTypeHeader(sanitized[Len(sanitized)]))
    /\ UNCHANGED <<mode, sentenceVars, headerVars, parseVars, ctHeader>>

NextSanitize == CallSanitize \/ CallSanitizeAgain

SpecSanitize == InitSanitize /\ [][NextSanitize]_vars

\* mime.ParseMediaType, as far as its result is used: the media type in lower
\* case, or an error for an empty or malformed type or a malformed parameter
IsTokenByte(b) == b > 32 /\ b < 127 /\ b \notin TSpecials
IsToken(s) == Len(s) > 0 /\ \A i \in 1..Len(s) : IsTokenByte(s[i])

IsMediaType(s) ==
    LET i == IndexByte(s, chSlash)
    IN  IF i = 0 THEN IsToken(s)
        ELSE IsToken(SubSeq(s, 1, i - 1)) /\ IsToken(SubSeq(s, i + 1, Len(s)))

IsMediaParam(p) ==
    LET q == TrimSpace(p)
        i == IndexByte(q, chEq)
        value == SubSeq(q, i + 1, Len(q))
    IN  /\ i > 1
        /\ IsToken(SubSeq(q, 1, i - 1))
        /\ \/ IsToken(value)
           \/ Len(value) >= 2 /\ value[1] = 34 /\ value[Len(value)] = 34

MimeParseMediaType(v) ==
    LET pieces == Split(v, chSemicolon)
        mediatype == ToLower(TrimSpace(pieces[1]))
    IN  IF ~IsMediaType(mediatype) THEN [err |-> TRUE, type |-> <<>>]
        ELSE IF \E i \in 2..Len(pieces) : ~IsMediaParam(pieces[i])
             THEN [err |-> TRUE, type |-> mediatype]
        ELSE [err |-> FALSE, type |-> mediatype]

contentTypeMultipartMixed == B("multipart/mixed")
contentTypeMultipartAlternative == B("multipart/alternative")
contentTypeMultipartRelated == B("multipart/related")
contentTypeTextHtml == B("text/html")
contentTypeTextPlain == B("text/plain")
OctetStream == B("application/octet-stream")

\* parseContentType: the absent header is text/plain
ParseContentType(contentTypeHeader) ==
    IF contentTypeHeader = <<>> THEN [err |-> FALSE, type |-> contentTypeTextPlain]
    ELSE MimeParseMediaType(SanitizeContentTypeHeader(contentTypeHeader))

\* what every multipart handler does with the Content-Type of a part
PartMediaType(part) == MimeParseMediaType(SanitizeContentTypeHeader(part.ctype))

(***************************************************************************)
(* Readers.  A reader is the bytes it will deliver and the charset decoder *)
(* wrapped around them (cs = 0: none).  lazy |-> TRUE is a reader that     *)
(* still draws on the part it was made from: nothing has been read yet.    *)
(***************************************************************************)
CharsetSeparator == B("; charset=")
CharsetCutset == ByteSet(" \"'\n\r")

\* decodeCharset: the number of the decoder it wraps around content, 0 for none
DecodeCharset(contentTypeWithCharset) ==
    IF Contains(contentTypeWithCharset, CharsetSeparator)
    THEN CharsetIndex(ToLower(Trim(SplitSeq(contentTypeWithCharset, CharsetSeparator)[2],
                                   CharsetCutset)))
    ELSE 0

NoReader == [nil |-> TRUE, lazy |-> FALSE, data |-> <<>>, cs |-> 0]
Reader(lazy, data, cs) == [nil |-> FALSE, lazy |-> lazy, data |-> data, cs |-> cs]

\* io.ReadAll of a reader
ReadAll(r) == IF r.cs = 0 THEN r.data ELSE Charmap(r.cs, r.data)

\* decodeContent(content, encoding, contentTypeWithCharset); content holds
\* the bytes raw.  rest is what is left unread in content afterwards.
Buffered(d, cs) ==
    IF d.err THEN [err |-> "decode", reader |-> NoReader, rest |-> <<>>]
    ELSE [err |-> "nil", reader |-> Reader(FALSE, d.bytes, cs), rest |-> <<>>]

\* the switch of decodeContent on the lower-cased encoding
DecodeSwitch(raw, enc, cs) ==
    IF enc = NameBase64 THEN Buffered(Base64Decode(raw), cs)
    ELSE IF enc \in {Name7bit, Name8bit} THEN Buffered([err |-> FALSE, bytes |-> raw], cs)
    ELSE IF enc = NameQuotedPrintable THEN Buffered(QPDecode(raw), cs)
    ELSE IF enc = <<>> THEN [err |-> "nil", reader |-> Reader(TRUE, raw, cs), rest |-> raw]
    ELSE [err |-> "unknown encoding", reader |-> NoReader, rest |-> raw]

\* decodeContent without strings.ToLower
DecodeContentCaseSensitive(raw, encoding, contentTypeWithCharset) ==
    DecodeSwitch(raw, encoding, DecodeCharset(contentTypeWithCharset))

DecodeContent(raw, encoding, contentTypeWithCharset) ==
    DecodeSwitch(raw, ToLower(encoding), DecodeCharset(contentTypeWithCharset))

(***************************************************************************)
(* Claims about the header field parser                                    *)
(***************************************************************************)
\* the raw value of field f is rejected by the grammar of its type
FieldFails(f) == /\ FieldParser(f) \in {"parseAddress", "parseAddressList", "parseTime"}
                 /\ ParseField(f, "nil", header[f]).err # "nil"

HeaderReturned == mode = "header" /\ hret \notin {"running", "panic"}

\* C1: when a typed header field fails its grammar parse, the failure is
\* recorded in the shared error slot hp.err and createEmailFromHeader returns
\* that error.
C1_FieldFailureIsReturned ==
    (HeaderReturned /\ \E f \in Fields : FieldFails(f))
        => (hpErr # "nil" /\ hret = hpErr)

\* the order of the fields as the specification lists it
DocumentedOrder == <<"Subject", "Sender", "From", "Reply-To", "To", "Cc", "Bcc", "Date",
                     "Resent-From", "Resent-Sender", "Resent-To", "Resent-Cc",
                     "Resent-Bcc", "Resent-Message-ID", "Message-ID", "In-Reply-To",
                     "References", "Resent-Date">>

\* C2: the fields are parsed in the documented order and, after the first
\* field that fails to parse, every later field of the Email is left at its
\* zero value, also when its raw value is well-formed.
C2_LaterFieldsStayZero ==
    HeaderReturned =>
        \A i \in 1..Len(DocumentedOrder) :
            FieldFails(DocumentedOrder[i]) =>
                \A j \in (i + 1)..Len(DocumentedOrder) : hfield[DocumentedOrder[j]] = <<>>
(***************************************************************************)
(* Claims about decodeMimeSentence                                         *)
(***************************************************************************)
SentenceReturned == mode = "sentence" /\ sOut.path # "none"

\* C6: the KOI8-R fast path fails open: for every s whose lowercase form
\* starts with "=?koi8-r", decodeMimeSentence(s) does not panic and, when the
\* whole-value decode does not succeed, returns s unchanged.
C6_Koi8FailsOpen ==
    (SentenceReturned /\ HasPrefix(ToLower(sIn), Koi8Marker))
        => (~sOut.panic /\ (sOut.path = "general" => sOut.str = sIn))

\* the value the documentation describes for a list of space-separated
\* tokens: a space between two neighbours unless both are encoded words
IsEncodedWord(tok) == ~WordDecode(tok).err
TokenText(tok) == IF IsEncodedWord(tok) THEN WordDecode(tok).str ELSE tok

RECURSIVE DocumentedSentence(_)
DocumentedSentence(ts) ==
    IF Len(ts) = 1 THEN TokenText(ts[1])
    ELSE TokenText(ts[1])
         \o (IF IsEncodedWord(ts[1]) /\ IsEncodedWord(ts[2]) THEN <<>> ELSE <<32>>)
         \o DocumentedSentence(Tail(ts))

\* C7: on the general path consecutive decoded encoded words are joined
\* with no space, and every literal token keeps the space before it and the
\* space after it, also when the next token is an encoded word.
C7_LiteralKeepsBothSpaces ==
    (/\ SentenceReturned /\ sOut.path = "general"
     /\ ~HasPrefix(ToLower(sIn), Koi8Marker)
     /\ \A i \in 1..Len(Split(sIn, 32)) : Split(sIn, 32)[i] # <<>>)
        => sOut.str = DocumentedSentence(Split(sIn, 32))
(***************************************************************************)
(* Entry point 3: ParseEmail and the multipart handlers                    *)
(*                                                                         *)
(* A message is what mail.ReadMessage and multipart.Reader make of the     *)
(* bytes: its header values and either a body or, under a multipart type,  *)
(* the parts the boundary splits the body into.  A part is                 *)
(*   ctype, cte   the Content-Type and Content-Transfer-Encoding headers    *)
(*   filename    part.FileName()                                           *)
(*   cid         the Content-Id header                                     *)
(*   body        the raw bytes of the part                                 *)
(*   parts       the parts of its body when it is read as a multipart      *)
(*   broken      NextPart fails here instead of handing out a part         *)
(*   bad         reading the part handed out fails (set by NextPart)       *)
(***************************************************************************)
NoErr == [kind |-> "nil", ctx |-> "", type |-> <<>>]
Err(kind, ctx, type) == [kind |-> kind, ctx |-> ctx, type |-> type]

Part(ctype, cte, filename, cid, body) ==
    [ctype |-> ctype, cte |-> cte, filename |-> filename, cid |-> cid, body |-> body,
     parts |-> <<>>, broken |-> FALSE, bad |-> FALSE]
Multipart(ctype, parts) ==
    [ctype |-> ctype, cte |-> <<>>, filename |-> <<>>, cid |-> <<>>, body |-> <<>>,
     parts |-> parts, broken |-> FALSE, bad |-> FALSE]
BrokenPart == [Part(<<>>, <<>>, <<>>, <<>>, <<>>) EXCEPT !.broken = TRUE]

\* createEmailFromHeader as one call: the typed fields and the returned err
RECURSIVE HeaderFields(_, _, _, _)
HeaderFields(h, i, err, fields) ==
    IF i > Len(FieldOrder) THEN [err |-> err, fields |-> fields]
    ELSE LET f == FieldOrder[i]
             r == ParseField(f, err, h[f])
         IN  HeaderFields(h, i + 1, CallerErrAfter(err, r.err), [fields EXCEPT ![f] = r.val])

EmailOfFields(subjectPanics, mimePanics, r) ==
    [panic |-> subjectPanics \/ (r.err = "nil" /\ mimePanics),
     err |-> r.err, fields |-> r.fields]

AfterSubject(h, subject) ==
    EmailOfFields(subject.panic,
                  \E f \in Fields : DecodeMimeSentence(h[f]).panic,
                  HeaderFields(h, 2, "nil", [NoFields EXCEPT !["Subject"] = subject.str]))

CreateEmailFromHeader(h) == AfterSubject(h, DecodeMimeSentence(h["Subject"]))

\* strconv of the clock reading in "attachment-%d"
RECURSIVE Decimal(_)
Decimal(n) == IF n < 10 THEN <<48 + n>> ELSE Decimal(n \div 10) \o <<48 + (n % 10)>>

\* isEmbeddedFile if it looked at Content-Id instead of Content-Transfer-Encoding
IsEmbeddedFileByCid(part) == part.cid # <<>>

\* isEmbeddedFile, isAttachment
IsEmbeddedFile(part) == part.cte # <<>>
IsAttachment(part, contentType) == part.filename # <<>> \/ contentType = OctetStream

\* decodeEmbeddedFile
EmbeddedFileOf(part, cid, decoded) ==
    [panic |-> cid.panic,
     err |-> decoded.err,
     ef |-> [CID |-> Trim(cid.str, AngleBrackets), Data |-> decoded.reader,
             ContentType |-> part.ctype]]

DecodeEmbeddedFile(part) ==
    EmbeddedFileOf(part, DecodeMimeSentence(part.cid),
                   DecodeContent(part.body, part.cte, part.ctype))

\* decodeAttachment; now is the reading of the clock if it is asked
AttachmentOf(part, now, name, decoded, contentType) ==
    [panic |-> name.panic,
     err |-> IF decoded.err # "nil" THEN decoded.err
             ELSE IF contentType = OctetStream /\ decoded.reader.lazy /\ part.bad
                  THEN "read"                          \* io.ReadAll(part) fails
             ELSE "nil",
     at |-> [Filename |-> IF name.str = <<>> THEN AttachmentPrefix \o Decimal(now)
                          ELSE name.str,
             ContentType |-> contentType,
             \* io.ReadAll(part): what decodeContent has left unread in the part
             Data |-> IF contentType = OctetStream THEN Reader(FALSE, decoded.rest, 0)
                      ELSE decoded.reader]]

DecodeAttachment(part, now) ==
    AttachmentOf(part, now, DecodeMimeSentence(part.filename),
                 DecodeContent(part.body, part.cte, part.ctype),
                 Split(part.ctype, chSemicolon)[1])

\* whether decodeAttachment reads the clock
IsUnnamed(name) == ~name.panic /\ name.str = <<>>
NeedsClock(part) == IsUnnamed(DecodeMimeSentence(part.filename))

\* NextPart closes the part handed out before: a reader still drawing on
\* that part has nothing left to deliver
Drain(r) == IF r.lazy THEN [r EXCEPT !.lazy = FALSE, !.data = <<>>] ELSE r
DrainAll(files) == [i \in 1..Len(files) |-> [files[i] EXCEPT !.Data = Drain(@)]]

Frame(kind, parts) ==
    [kind |-> kind, parts |-> parts, textBody |-> <<>>, htmlBody |-> <<>>,
     attachments |-> <<>>, embeddedFiles |-> <<>>]

KindOf(contentType) ==
    IF contentType = contentTypeMultipartMixed THEN "mixed"
    ELSE IF contentType = contentTypeMultipartAlternative THEN "alternative"
    ELSE "related"

\* a text leaf decoded and read: decodeContent, io.ReadAll, strings.TrimSuffix
TextOf(part, d) ==
    IF d.err # "nil" THEN [err |-> d.err, text |-> <<>>]
    ELSE IF d.reader.lazy /\ part.bad THEN [err |-> "read", text |-> <<>>]
    ELSE [err |-> "nil", text |-> TrimSuffix(ReadAll(d.reader), LF)]

DecodedText(part) == TextOf(part, DecodeContent(part.body, part.cte, part.ctype))

\* a text leaf read as it is: io.ReadAll(part), strings.TrimSuffix
RawText(part) ==
    IF part.bad THEN [err |-> "read", text |-> <<>>]
    ELSE [err |-> "nil", text |-> TrimSuffix(part.body, LF)]

\* The body of the loop of parseMultipartMixed for one part: what the frame
\* becomes and how the iteration ends (next: go on, call: a nested handler is
\* called, return: the handler returns err).
MixedSwitch(fr, part, ct, txt, at) ==
    LET out(how, f, e) == [how |-> how, frame |-> f, err |-> e, callee |-> "none"]
    IN  IF ct.err THEN out("return", fr, Err("media type", "mixed", part.ctype))
        ELSE IF ct.type = contentTypeMultipartAlternative
             THEN [out("call", fr, NoErr) EXCEPT !.callee = "alternative"]
        ELSE IF ct.type = contentTypeMultipartRelated
             THEN [out("call", fr, NoErr) EXCEPT !.callee = "related"]
        ELSE IF ct.type = contentTypeTextPlain
             THEN IF txt.err # "nil" THEN out("return", fr, Err(txt.err, "mixed", part.cte))
                  ELSE out("next", [fr EXCEPT !.textBody = @ \o txt.text], NoErr)
        ELSE IF ct.type = contentTypeTextHtml
             THEN IF txt.err # "nil" THEN out("return", fr, Err(txt.err, "mixed", part.cte))
                  ELSE out("next", [fr EXCEPT !.htmlBody = @ \o txt.text], NoErr)
        ELSE IF IsAttachment(part, ct.type)
             THEN IF at.panic THEN out("panic", fr, NoErr)
                  ELSE IF at.err # "nil"
                       THEN out("return", fr, Err(at.err, "mixed", part.cte))
                  ELSE out("next", [fr EXCEPT !.attachments = Append(@, at.at)], NoErr)
        ELSE out("return", fr, Err("unsupported", "mixed", ct.type))

MixedBody(fr, part, now) ==
    MixedSwitch(fr, part, PartMediaType(part), DecodedText(part), DecodeAttachment(part, now))

\* The body of the loop of parseMultipartAlternative for one part
AlternativeSwitch(fr, part, ct, txt, ef) ==
    LET out(how, f, e) == [how |-> how, frame |-> f, err |-> e, callee |-> "none"]
    IN  IF ct.err THEN out("return", fr, Err("media type", "alternative", part.ctype))
        ELSE IF ct.type = contentTypeTextPlain
             THEN IF txt.err # "nil"
                  THEN out("return", fr, Err(txt.err, "alternative", part.cte))
                  ELSE out("next", [fr EXCEPT !.textBody = @ \o txt.text], NoErr)
        ELSE IF ct.type = contentTypeTextHtml
             THEN IF txt.err # "nil"
                  THEN out("return", fr, Err(txt.err, "alternative", part.cte))
                  ELSE out("next", [fr EXCEPT !.htmlBody = @ \o txt.text], NoErr)
        ELSE IF ct.type = contentTypeMultipartRelated
             THEN [out("call", fr, NoErr) EXCEPT !.callee = "related"]
        ELSE IF IsEmbeddedFile(part)
             THEN IF ef.panic THEN out("panic", fr, NoErr)
                  ELSE IF ef.err # "nil"
                       THEN out("return", fr, Err(ef.err, "alternative", part.cte))
                  ELSE out("next", [fr EXCEPT !.embeddedFiles = Append(@, ef.ef)], NoErr)
        ELSE out("return", fr, Err("unsupported", "alternative", ct.type))

AlternativeBody(fr, part) ==
    AlternativeSwitch(fr, part, PartMediaType(part), DecodedText(part),
                      DecodeEmbeddedFile(part))

\* The body of the loop of parseMultipartRelated for one part
RelatedSwitch(fr, part, ct, txt, ef) ==
    LET out(how, f, e) == [how |-> how, frame |-> f, err |-> e, callee |-> "none"]
    IN  IF ct.err THEN out("return", fr, Err("media type", "related", part.ctype))
        ELSE IF ct.type = contentTypeTextPlain
             THEN IF txt.err # "nil" THEN out("return", fr, Err(txt.err, "related", part.cte))
                  ELSE out("next", [fr EXCEPT !.textBody = @ \o txt.text], NoErr)
        ELSE IF ct.type = contentTypeTextHtml
             THEN IF txt.err # "nil" THEN out("return", fr, Err(txt.err, "related", part.cte))
                  ELSE out("next", [fr EXCEPT !.htmlBody = @ \o txt.text], NoErr)
        ELSE IF ct.type = contentTypeMultipartAlternative
             THEN [out("call", fr, NoErr) EXCEPT !.callee = "alternative"]
        ELSE IF IsEmbeddedFile(part)
             THEN IF ef.panic THEN out("panic", fr, NoErr)
                  ELSE IF ef.err # "nil"
                       THEN out("return", fr, Err(ef.err, "related", part.cte))
                  ELSE out("next", [fr EXCEPT !.embeddedFiles = Append(@, ef.ef)], NoErr)
        ELSE out("return", fr, Err("unsupported", "related", ct.type))

RelatedBody(fr, part) ==
    RelatedSwitch(fr, part, PartMediaType(part), RawText(part), DecodeEmbeddedFile(part))

\* what a handler hands to its caller when it returns from frame fr with err
Returned(fr, err) ==
    [pending |-> TRUE, textBody |-> fr.textBody, htmlBody |-> fr.htmlBody,
     attachments |-> fr.attachments, embeddedFiles |-> fr.embeddedFiles, err |-> err]

NoReturn == [pending |-> FALSE, textBody |-> <<>>, htmlBody |-> <<>>,
             attachments |-> <<>>, embeddedFiles |-> <<>>, err |-> NoErr]

\* parseMultipartMixed after a nested handler has returned r:
\*   textBody, htmlBody, embeddedFiles, err = parseMultipart...(part, ...)
MixedAfterCall(fr, r) ==
    [fr EXCEPT !.textBody = r.textBody, !.htmlBody = r.htmlBody,
               !.embeddedFiles = r.embeddedFiles]

\* parseMultipartAlternative and parseMultipartRelated after a nested handler
\* has returned r: on an error the handler returns what it had, else
\*   htmlBody += hb; textBody += tb; embeddedFiles = append(embeddedFiles, ef...)
NestedAfterCall(fr, r) ==
    IF r.err # NoErr THEN fr
    ELSE [fr EXCEPT !.textBody = @ \o r.textBody, !.htmlBody = @ \o r.htmlBody,
                    !.embeddedFiles = @ \o r.embeddedFiles]

NoEmail == [nil |-> TRUE, fields |-> NoFields, ContentType |-> <<>>, TextBody |-> <<>>,
            HTMLBody |-> <<>>, Attachments |-> <<>>, EmbeddedFiles |-> <<>>,
            Content |-> NoReader]
(***************************************************************************)
(* The messages of the model                                               *)
(***************************************************************************)
MaxParts == 2

GoodHeader == [NoFields EXCEPT !["From"] = AddrOne, !["Subject"] = B("Hi")]
BadHeader == [NoFields EXCEPT !["From"] = AddrBad, !["To"] = AddrOne]

Message(h, ctype, cte, body, parts) ==
    [unreadable |-> FALSE, header |-> h, ctype |-> ctype, cte |-> cte, body |-> body,
     parts |-> parts, bad |-> FALSE]

\* a message whose body stream fails once body has been delivered
FailingBody(ctype, cte, body) ==
    [Message(GoodHeader, ctype, cte, body, <<>>) EXCEPT !.bad = TRUE]

\* leaves of the nested multiparts
NestedText == Part(B("text/plain"), <<>>, <<>>, <<>>, B("B\n"))
InlineImage == Part(B("image/png"), B("base64"), <<>>, B("<c1>"), B("aGk="))
BareImage == Part(B("image/png"), <<>>, <<>>, <<>>, B("raw"))
NestedLeaves == {NestedText, InlineImage}

\* leaves of the outermost multipart
PlainText == Part(B("text/plain"), <<>>, <<>>, <<>>, B("A\n"))
HtmlText == Part(B("text/html; charset=utf-8"), B("7bit"), <<>>, <<>>, B("<b>\n"))
OctetBase64 == Part(OctetStream, B("base64"), <<>>, <<>>, B("aGk="))
TopLeaves == {PlainText, OctetBase64}

NestedMultiparts ==
    {Multipart(ct \o B("; boundary=n"), ps) :
        ct \in {contentTypeMultipartAlternative, contentTypeMultipartRelated},
        ps \in SeqsUpTo(NestedLeaves, MaxParts - 1)}

\* multipart/mixed messages of up to MaxParts parts, nested multiparts among them
TreeMessages ==
    {Message(GoodHeader, contentTypeMultipartMixed \o B("; boundary=t"), <<>>, <<>>, ps) :
        ps \in SeqsUpTo(TopLeaves \cup NestedMultiparts, MaxParts)}

\* leaves of every encoding and type, in a multipart without nesting
FlatLeaves ==
    {PlainText, BrokenPart,
     Part(B("text/plain; charset=koi8-r"), B("quoted-printable"), <<>>, <<>>, B("=F4a=\n")),
     Part(B("text/plain; charset=\"Windows-1251\""), B("Base64"), <<>>, <<>>, B("9GE=")),
     Part(B("text/plain; charset=koi8-r; format=flowed"), B("8bit"), <<>>, <<>>, <<244, 10>>),
     Part(B("text/plain"), B("x-uuencode"), <<>>, <<>>, B("A\n")),
     Part(B("TEXT/HTML"), B("base64"), <<>>, <<>>, B("aGk")),
     Part(<<>>, <<>>, <<>>, <<>>, B("A\n")),
     OctetBase64,
     Part(OctetStream, B("quoted-printable"), <<>>, <<>>, B("=F4a")),
     Part(OctetStream, B("7bit"), <<>>, <<>>, B("raw")),
     Part(OctetStream, B("8bit"), B("f.bin"), <<>>, <<244>>),
     Part(OctetStream, <<>>, <<>>, <<>>, B("raw")),
     Part(OctetStream \o B("; charset=koi8-r"), B("base64"), <<>>, <<>>, B("9GE=")),
     Part(B("Application/Octet-Stream"), B("base64"), <<>>, <<>>, B("aGk=")),
     Part(B("application/pdf"), <<>>, B("f.pdf"), <<>>, B("%PDF")),
     Part(B("application/pdf"), B("base64"), B("=?utf-8?Q?f?="), <<>>, B("aGk=")),
     Part(B("application/pdf"), <<>>, Koi8Marker, <<>>, B("%PDF")),
     InlineImage,
     Part(B("image/png; charset=koi8-r"), B("8bit"), <<>>, B("<c2>"), <<244>>),
     Part(B("image/png"), <<>>, <<>>, B("<c3>"), B("raw")),
     Part(B("image/png"), B("quoted-printable"), <<>>, B("<c4>"), B("=F4a")),
     Part(B("text/html"), B("quoted-printable"), <<>>, <<>>, B("=F4=G")),
     Multipart(B("multipart/mixed; boundary=m"), <<PlainText>>),
     BareImage}

FlatMessages ==
    {Message(GoodHeader, ct \o B("; boundary=f"), <<>>, <<>>, ps) :
        ct \in {contentTypeMultipartMixed, contentTypeMultipartAlternative,
                contentTypeMultipartRelated},
        ps \in {<<>>} \cup {<<leaf>> : leaf \in FlatLeaves}
                      \cup {<<leaf, PlainText>> : leaf \in FlatLeaves}
                      \cup {<<HtmlText, leaf>> : leaf \in FlatLeaves}}

\* messages that are not multipart
SingleMessages ==
    {Message(h, ct, cte, body, <<>>) :
        h \in {GoodHeader, BadHeader},
        ct \in {<<>>, B("text/plain; charset=koi8-r"), B("Text/HTML"), B("application/pdf"),
                OctetStream \o B("; charset=koi8-r"), B("text/plain; charset"),
                B("multipart/digest; boundary=d")},
        cte \in {<<>>, B("base64"), B("Quoted-Printable"), B("x-uuencode"), B("7bit"),
                 B("8BIT")},
        body \in {B("9GE=\n"), B("=F4a")}}

\* deeper nesting, and a message mail.ReadMessage rejects
AltOfTexts == Multipart(B("multipart/alternative; boundary=a"), <<NestedText, HtmlText>>)
RelatedOfAlt == Multipart(B("multipart/related; boundary=r"), <<AltOfTexts, InlineImage>>)
DeepMessages ==
    {Message(GoodHeader, B("multipart/mixed; boundary=t"), <<>>, <<>>, <<AltOfTexts, OctetBase64>>),
     Message(GoodHeader, B("multipart/mixed; boundary=t"), <<>>, <<>>,
             <<PlainText, RelatedOfAlt, InlineImage>>),
     Message(BadHeader, B("multipart/alternative; boundary=t"), <<>>, <<>>,
             <<Multipart(B("multipart/related; boundary=r"), <<RelatedOfAlt, BareImage>>),
               PlainText>>),
     Message(GoodHeader, B("multipart/related"), <<>>, <<>>, <<BrokenPart>>),
     [Message(GoodHeader, <<>>, <<>>, <<>>, <<>>) EXCEPT !.unreadable = TRUE]}

\* text and other bodies that cannot be read to their end
FailingBodies ==
    {FailingBody(ct, cte, B("9GE=")) :
        ct \in {<<>>, B("text/plain; charset=koi8-r"), B("text/html"), B("application/pdf")},
        cte \in {<<>>, B("base64"), B("7bit"), B("quoted-printable"), B("x-uuencode")}}

Messages ==
    TreeMessages \cup FlatMessages \cup SingleMessages \cup DeepMessages \cup FailingBodies

(***************************************************************************)
(* ParseEmail step by step                                                 *)
(***************************************************************************)
InitParse == /\ mode = "parse"
             /\ msg \in Messages
             /\ pc = "start"
             /\ stack = <<>>
             /\ ret = NoReturn
             /\ email = NoEmail
             /\ perr = NoErr
             /\ clock = 1
             /\ nproc = 0
             /\ SentenceIdle
             /\ HeaderIdle
             /\ SanitizeIdle

Others == <<mode, sentenceVars, headerVars, sanitizeVars, msg>>

\* ParseEmail down to the switch on the content type
ParseStart ==
    /\ mode = "parse" /\ pc = "start"
    /\ \E h \in {CreateEmailFromHeader(msg.header)}, ct \in {ParseContentType(msg.ctype)} :
          IF msg.unreadable
          THEN /\ perr' = Err("read", "", <<>>) /\ pc' = "done"
               /\ UNCHANGED <<email, stack>>
          ELSE IF h.panic
          THEN pc' = "panicked" /\ UNCHANGED <<email, perr, stack>>
          ELSE IF h.err # "nil"
          THEN /\ email' = [NoEmail EXCEPT !.nil = FALSE, !.fields = h.fields]
               /\ perr' = Err(h.err, "header", <<>>) /\ pc' = "done"
               /\ UNCHANGED stack
          ELSE /\ email' = [NoEmail EXCEPT !.nil = FALSE, !.fields = h.fields,
                                           !.ContentType = msg.ctype]
               /\ IF ct.err
                  THEN /\ perr' = Err("media type", "", msg.ctype) /\ pc' = "done"
                       /\ UNCHANGED stack
                  ELSE /\ UNCHANGED perr
                       /\ IF ct.type \in {contentTypeMultipartMixed,
                                          contentTypeMultipartAlternative,
                                          contentTypeMultipartRelated}
                          THEN /\ pc' = "walk"
                               /\ stack' = <<Frame(KindOf(ct.type), msg.parts)>>
                          ELSE /\ pc' = IF ct.type = contentTypeTextPlain THEN "plain"
                                        ELSE IF ct.type = contentTypeTextHtml THEN "html"
                                        ELSE "default"
                               /\ UNCHANGED stack
    /\ UNCHANGED <<Others, ret, clock, nproc>>

\* decodeContent on msg.Body: the branches that read the body to its end
\* return the error of a failing read
BodyDecoded(bad, d) ==
    IF bad /\ d.err = "nil" /\ ~d.reader.lazy
    THEN [err |-> "read", reader |-> NoReader, rest |-> <<>>]
    ELSE d

TopDecodeContent == BodyDecoded(msg.bad, DecodeContent(msg.body, msg.cte, msg.ctype))

\* the text cases of ParseEmail if they also kept the decoded reader in Content
TopTextKeepsReader(at, field) ==
    /\ mode = "parse" /\ pc = at
    /\ \E d \in {TopDecodeContent} :
          IF d.err # "nil"
          THEN perr' = Err(d.err, "", msg.cte) /\ UNCHANGED email
          ELSE /\ email' = [email EXCEPT ![field] = TrimSuffix(ReadAll(d.reader), LF),
                                         !.Content = d.reader]
               /\ UNCHANGED perr
    /\ pc' = "done"
    /\ UNCHANGED <<Others, stack, ret, clock, nproc>>

\* case contentTypeTextPlain / case contentTypeTextHtml of ParseEmail
TopText(at, field) ==
    /\ mode = "parse" /\ pc = at
    /\ \E d \in {TopDecodeContent} :
          IF d.err # "nil"
          THEN perr' = Err(d.err, "", msg.cte) /\ UNCHANGED email
          ELSE IF field = "HTMLBody" /\ d.reader.lazy /\ msg.bad
          \* text/html returns the error of io.ReadAll, text/plain drops it
          THEN perr' = Err("read", "", <<>>) /\ UNCHANGED email
          ELSE /\ email' = [email EXCEPT ![field] = TrimSuffix(ReadAll(d.reader), LF)]
               /\ UNCHANGED perr
    /\ pc' = "done"
    /\ UNCHANGED <<Others, stack, ret, clock, nproc>>

TopTextPlain == TopText("plain", "TextBody")
TopTextHtml == TopText("html", "HTMLBody")

\* default: email.Content, err = decodeContent(...)
TopDefault ==
    /\ mode = "parse" /\ pc = "default"
    /\ \E d \in {TopDecodeContent} :
          /\ email' = [email EXCEPT !.Content = d.reader]
          /\ perr' = IF d.err # "nil" THEN Err(d.err, "", msg.cte) ELSE NoErr
    /\ pc' = "done"
    /\ UNCHANGED <<Others, stack, ret, clock, nproc>>

Top == stack[Len(stack)]
Below == SubSeq(stack, 1, Len(stack) - 1)

InHandler(kind) == /\ mode = "parse" /\ pc = "walk" /\ ~ret.pending
                   /\ stack # <<>> /\ Top.kind = kind

\* the frame once NextPart has been called
AfterNextPart(fr) ==
    [fr EXCEPT !.parts = IF @ = <<>> THEN @ ELSE Tail(@),
               !.attachments = DrainAll(@), !.embeddedFiles = DrainAll(@)]

\* multipart.Reader.NextPart hands out a part whose Content-Transfer-Encoding
\* is quoted-printable with that header field deleted and its body decoded as
\* it is read; bad: the reading fails
HandedOut(p, d) == [p EXCEPT !.cte = <<>>, !.body = d.bytes, !.bad = d.err]

NextPart(p) ==
    IF ToLower(p.cte) = NameQuotedPrintable THEN HandedOut(p, QPDecode(p.body)) ELSE p

\* one turn of the loop of a handler whose NextPart hands out a part, or fails
PartStep(kind, part, r) ==
    IF part.broken
    THEN /\ stack' = Below
         /\ ret' = Returned(AfterNextPart(Top), Err("multipart", kind, <<>>))
         /\ UNCHANGED <<pc, nproc>>
    ELSE /\ nproc' = nproc + 1
         /\ IF r.how = "next"
            THEN stack' = Append(Below, r.frame) /\ UNCHANGED <<ret, pc>>
            ELSE IF r.how = "call"
            THEN /\ stack' = Append(Append(Below, r.frame), Frame(r.callee, part.parts))
                 /\ UNCHANGED <<ret, pc>>
            ELSE IF r.how = "return"
            THEN stack' = Below /\ ret' = Returned(r.frame, r.err) /\ UNCHANGED pc
            ELSE pc' = "panicked" /\ stack' = <<>> /\ UNCHANGED ret

\* whether the part makes decodeAttachment read the clock
ClockIsRead(part, ct) ==
    /\ ~part.broken /\ ~ct.err
    /\ ct.type \notin {contentTypeMultipartAlternative, contentTypeMultipartRelated,
                       contentTypeTextPlain, contentTypeTextHtml}
    /\ IsAttachment(part, ct.type)
    /\ NeedsClock(part)

MixedReadsClock(part) == ClockIsRead(part, PartMediaType(part))

MixedPart ==
    /\ InHandler("mixed") /\ Top.parts # <<>>
    /\ \E part \in {NextPart(Head(Top.parts))} :
       \E tick \in IF MixedReadsClock(part) THEN {0, 1} ELSE {0} :
          /\ clock' = clock + tick
          /\ PartStep("mixed", part, MixedBody(AfterNextPart(Top), part, clock + tick))
    /\ UNCHANGED <<Others, email, perr>>

AlternativePart ==
    /\ InHandler("alternative") /\ Top.parts # <<>>
    /\ \E part \in {NextPart(Head(Top.parts))} :
          PartStep("alternative", part, AlternativeBody(AfterNextPart(Top), part))
    /\ UNCHANGED <<Others, email, perr, clock>>

RelatedPart ==
    /\ InHandler("related") /\ Top.parts # <<>>
    /\ \E part \in {NextPart(Head(Top.parts))} :
          PartStep("related", part, RelatedBody(AfterNextPart(Top), part))
    /\ UNCHANGED <<Others, email, perr, clock>>

\* NextPart returns io.EOF: the loop ends and the handler returns
EndOfParts(kind) ==
    /\ InHandler(kind) /\ Top.parts = <<>>
    /\ stack' = Below
    /\ ret' = Returned(AfterNextPart(Top), NoErr)
    /\ UNCHANGED <<Others, pc, email, perr, clock, nproc>>

MixedEnd == EndOfParts("mixed")
AlternativeEnd == EndOfParts("alternative")
RelatedEnd == EndOfParts("related")

Resuming(kind) == /\ mode = "parse" /\ pc = "walk" /\ ret.pending
                  /\ stack # <<>> /\ Top.kind = kind

\* parseMultipartMixed takes the results of the nested handler
MixedResume ==
    /\ Resuming("mixed")
    /\ LET fr == MixedAfterCall(Top, ret)
       IN  IF ret.err # NoErr
           THEN stack' = Below /\ ret' = Returned(fr, ret.err)
           ELSE stack' = Append(Below, fr) /\ ret' = NoReturn
    /\ UNCHANGED <<Others, pc, email, perr, clock, nproc>>

\* parseMultipartAlternative / parseMultipartRelated take them
NestedResume(kind) ==
    /\ Resuming(kind)
    /\ LET fr == NestedAfterCall(Top, ret)
       IN  IF ret.err # NoErr
           THEN stack' = Below /\ ret' = Returned(fr, ret.err)
           ELSE stack' = Append(Below, fr) /\ ret' = NoReturn
    /\ UNCHANGED <<Others, pc, email, perr, clock, nproc>>

AlternativeResume == NestedResume("alternative")
RelatedResume == NestedResume("related")

\* ParseEmail assigns what the outermost handler returned, and returns
\*   email.TextBody, email.HTMLBody, ..., err = parseMultipart...(msg.Body, ...)
TopResume ==
    /\ mode = "parse" /\ pc = "walk" /\ ret.pending /\ stack = <<>>
    /\ email' = [email EXCEPT !.TextBody = ret.textBody, !.HTMLBody = ret.htmlBody,
                              !.Attachments = ret.attachments,
                              !.EmbeddedFiles = ret.embeddedFiles]
    /\ perr' = ret.err
    /\ ret' = NoReturn
    /\ pc' = "done"
    /\ UNCHANGED <<Others, stack, clock, nproc>>

NextParse == \/ ParseStart \/ TopTextPlain \/ TopTextHtml \/ TopDefault
             \/ MixedPart \/ AlternativePart \/ RelatedPart
             \/ MixedEnd \/ AlternativeEnd \/ RelatedEnd
             \/ MixedResume \/ AlternativeResume \/ RelatedResume
             \/ TopResume

SpecParse == InitParse /\ [][NextParse]_vars

(***************************************************************************)
(* Claims about ParseEmail                                                 *)
(***************************************************************************)
ParseReturned == mode = "parse" /\ pc = "done"
Succeeded == ParseReturned /\ perr = NoErr
TopType == ParseContentType(msg.ctype)
IsMultipartMessage ==
    ~TopType.err /\ TopType.type \in {contentTypeMultipartMixed,
                                      contentTypeMultipartAlternative,
                                      contentTypeMultipartRelated}
NestedTypes == {contentTypeMultipartAlternative, contentTypeMultipartRelated}

\* the documented accumulator: the leaves of media type type of the whole
\* tree, in document order, each decoded and without one trailing newline
RECURSIVE DocumentedBody(_, _)
DocumentedBody(parts, type) ==
    IF parts = <<>> THEN <<>>
    ELSE LET p == Head(parts)
             here == IF PartMediaType(p).err THEN <<>>
                     ELSE IF PartMediaType(p).type = type
                          THEN DecodedText(NextPart(p)).text
                     ELSE IF PartMediaType(p).type \in NestedTypes
                          THEN DocumentedBody(p.parts, type)
                     ELSE <<>>
         IN  here \o DocumentedBody(Tail(parts), type)

\* C3: for every successfully parsed multipart message, TextBody (HTMLBody)
\* is the concatenation, in document order, of every text/plain (text/html)
\* leaf of the whole nested tree, each without one trailing newline; a text
\* leaf of a multipart/mixed body that comes before a nested multipart
\* sibling is still in the result.
C3_BodiesAccumulateOverTheTree ==
    (Succeeded /\ IsMultipartMessage)
        => /\ email.TextBody = DocumentedBody(msg.parts, contentTypeTextPlain)
           /\ email.HTMLBody = DocumentedBody(msg.parts, contentTypeTextHtml)

\* the Content-Ids of the embedded files a nested handler collects from parts
RECURSIVE EmbeddedIn(_)
EmbeddedIn(parts) ==
    IF parts = <<>> THEN <<>>
    ELSE LET p == Head(parts)
             here == IF PartMediaType(p).err THEN <<>>
                     ELSE IF PartMediaType(p).type \in NestedTypes THEN EmbeddedIn(p.parts)
                     ELSE IF PartMediaType(p).type \in {contentTypeTextPlain,
                                                        contentTypeTextHtml}
                          THEN <<>>
                     ELSE <<DecodeEmbeddedFile(NextPart(p)).ef.CID>>
         IN  here \o EmbeddedIn(Tail(parts))

\* the documented result of the Mixed handler: the files of every nested
\* multipart of the body, in document order
RECURSIVE DocumentedMixedFiles(_)
DocumentedMixedFiles(parts) ==
    IF parts = <<>> THEN <<>>
    ELSE (IF ~PartMediaType(Head(parts)).err
             /\ PartMediaType(Head(parts)).type \in NestedTypes
          THEN EmbeddedIn(Head(parts).parts) ELSE <<>>)
         \o DocumentedMixedFiles(Tail(parts))

\* C4: in the Mixed handler the embedded files of each nested multipart are
\* appended to those collected from earlier parts: a multipart/mixed body
\* with two nested multiparts yields the files of both, in document order.
C4_MixedAppendsEmbeddedFiles ==
    (Succeeded /\ ~TopType.err /\ TopType.type = contentTypeMultipartMixed)
        => [i \in 1..Len(email.EmbeddedFiles) |-> email.EmbeddedFiles[i].CID]
               = DocumentedMixedFiles(msg.parts)

\* a multipart/mixed message of one part of media type application/octet-stream
OneOctetStreamPart ==
    /\ ~TopType.err /\ TopType.type = contentTypeMultipartMixed
    /\ Len(msg.parts) = 1
    /\ ~msg.parts[1].broken
    /\ ~PartMediaType(msg.parts[1]).err
    /\ PartMediaType(msg.parts[1]).type = OctetStream

\* C5: the Data of the Attachment made from an application/octet-stream part
\* of a multipart/mixed body is the raw, undecoded bytes of the part body,
\* whatever its Content-Transfer-Encoding is.
C5_OctetStreamDataIsRaw ==
    (Succeeded /\ OneOctetStreamPart)
        => /\ Len(email.Attachments) = 1
           /\ ReadAll(email.Attachments[1].Data) = msg.parts[1].body

\* C8: when ParseEmail returns an error raised after the header is decoded
\* (invalid Content-Type, unknown transfer encoding, unsupported part type,
\* malformed multipart), the Email it returns is nil.
C8_NoEmailWithAnError ==
    (ParseReturned /\ perr # NoErr /\ perr.ctx # "header" /\ perr.kind # "read")
        => email.nil

\* the media types ParseEmail has a case for
CaseTypes == {contentTypeMultipartMixed, contentTypeMultipartAlternative,
              contentTypeMultipartRelated, contentTypeTextPlain, contentTypeTextHtml}

\* where the control is while a case of the switch of ParseEmail runs
Branches == {"walk", "plain", "html", "default"}

ContentOnlyByDefault ==
    mode = "parse" =>
        /\ ~email.Content.nil =>
               /\ ~TopType.err /\ TopType.type \notin CaseTypes
               /\ email.TextBody = <<>> /\ email.HTMLBody = <<>>
               /\ email.Attachments = <<>> /\ email.EmbeddedFiles = <<>>
        /\ (~TopType.err /\ TopType.type \in CaseTypes) => email.Content.nil
        /\ pc = "default" => TopType.type \notin CaseTypes
        /\ pc = "plain" => TopType.type = contentTypeTextPlain
        /\ pc = "html" => TopType.type = contentTypeTextHtml
        /\ pc = "walk" => IsMultipartMessage

OneBranch ==
    mode = "parse" =>
        /\ pc \in Branches => pc' \in {pc, "done", "panicked"}
        /\ pc \in {"done", "panicked"} => pc' = pc

\* C9: exactly one case of the switch of ParseEmail runs for a message that
\* reaches it; Content is non-nil only when the top-level media type is none
\* of multipart/mixed, multipart/alternative, multipart/related, text/plain,
\* text/html, and then TextBody, HTMLBody, Attachments and EmbeddedFiles are
\* empty; in every other case Content is nil.
C9_ContentOnlyInTheDefaultCase == []ContentOnlyByDefault /\ [][OneBranch]_vars

\* a message of the default case returned with its Content
C9_Witness == /\ Succeeded /\ ~email.Content.nil
              /\ TopType.type \notin CaseTypes
              /\ email.ContentType # <<>>

\* the documented classification: part p, as it stands in the body, matches
\* nothing a handler of kind kind accepts
UnsupportedIn(kind, p) ==
    /\ ~p.broken /\ ~PartMediaType(p).err
    /\ IF kind = "mixed"
       THEN /\ PartMediaType(p).type \notin {contentTypeTextPlain, contentTypeTextHtml,
                                             contentTypeMultipartAlternative,
                                             contentTypeMultipartRelated}
            /\ p.filename = <<>>
            /\ PartMediaType(p).type # OctetStream
       ELSE /\ PartMediaType(p).type \notin
                   {contentTypeTextPlain, contentTypeTextHtml,
                    IF kind = "alternative" THEN contentTypeMultipartRelated
                    ELSE contentTypeMultipartAlternative}
            /\ p.cte = <<>>

\* the handler on top meets an unsupported part: it returns the error
UnsupportedFails ==
    (/\ mode = "parse" /\ pc = "walk" /\ ~ret.pending /\ stack # <<>>
     /\ Top.parts # <<>> /\ UnsupportedIn(Top.kind, Head(Top.parts)))
        => /\ ret'.pending
           /\ ret'.err = Err("unsupported", Top.kind, PartMediaType(Head(Top.parts)).type)
           /\ stack' = Below

\* the error goes up unchanged to the caller of ParseEmail and no part is
\* handed out any more
UnsupportedIsTerminal ==
    (mode = "parse" /\ ret.pending /\ ret.err.kind = "unsupported")
        => /\ nproc' = nproc
           /\ \/ ret'.pending /\ ret'.err = ret.err
              \/ pc' = "done" /\ perr' = ret.err

\* C10: in every multipart context a part that matches no allowed
\* classification fails the whole parse with the unsupported-part error
\* naming its media type, and no later sibling part is processed.
C10_UnsupportedPartFailsTheParse == [][UnsupportedFails /\ UnsupportedIsTerminal]_vars

\* a multipart/related message returned with that error for its first part,
\* its second part never handed out
C10_Witness == /\ ParseReturned
               /\ perr = Err("unsupported", "related", B("image/png"))
               /\ Len(msg.parts) = 2
               /\ nproc = 1

\* a multipart message of one part, a text leaf
OneTextLeaf ==
    /\ IsMultipartMessage
    /\ Len(msg.parts) = 1
    /\ ~msg.parts[1].broken
    /\ ~PartMediaType(msg.parts[1]).err
    /\ PartMediaType(msg.parts[1]).type \in {contentTypeTextPlain, contentTypeTextHtml}

\* ParseEmail has returned what the one turn a of a handler gives
ReturnedAs(a) ==
    IF a.how = "return" THEN perr.kind = a.err.kind
    ELSE /\ perr = NoErr
         /\ email.TextBody = a.frame.textBody
         /\ email.HTMLBody = a.frame.htmlBody

\* C11: the Related handler treats a text/plain or text/html leaf exactly as
\* the Alternative handler does: the same leaf gives the same text, or the
\* same error, in a multipart/related body as in a multipart/alternative one.
C11_RelatedTreatsTextAsAlternative ==
    (ParseReturned /\ OneTextLeaf /\ TopType.type = contentTypeMultipartRelated)
        => ReturnedAs(AlternativeBody(Frame("alternative", <<>>), NextPart(msg.parts[1])))

\* a multipart message of one part that has no Content-Type header and no
\* Content-Transfer-Encoding header
OnePartWithoutContentType ==
    /\ IsMultipartMessage
    /\ Len(msg.parts) = 1
    /\ ~msg.parts[1].broken
    /\ msg.parts[1].ctype = <<>>
    /\ msg.parts[1].cte = <<>>

\* C12: a part without a Content-Type header resolves to text/plain, as the
\* top-level message does: it is read as a text/plain leaf and the parse does
\* not fail.
C12_PartWithoutContentTypeIsTextPlain ==
    (ParseReturned /\ OnePartWithoutContentType)
        => /\ perr = NoErr
           /\ email.TextBody = TrimSuffix(msg.parts[1].body, LF)

\* C13: a top-level body declared application/octet-stream is never
\* transcoded: reading Content delivers the bytes that the transfer decoder
\* produced, whatever charset parameter the Content-Type carries.
C13_OctetStreamIsNotTranscoded ==
    (Succeeded /\ ~TopType.err /\ TopType.type = OctetStream)
        => ReadAll(email.Content) = email.Content.data

\* the top-level message, whose body can be read to its end, took the
\* default case of ParseEmail, which hands the result of decodeContent to the
\* caller as it is
DefaultCaseReturned ==
    ParseReturned /\ ~msg.bad /\ ~TopType.err /\ TopType.type \notin CaseTypes

\* the documented result for the decoded bytes d of a decoding transfer encoding
DecodesTo(d) ==
    IF d.err THEN perr.kind = "decode" /\ email.Content.nil
    ELSE perr = NoErr /\ ~email.Content.nil /\ email.Content.data = d.bytes

\* the documented dispatch on the transfer encoding, lower-cased
DocumentedDispatch(encoding) ==
    IF encoding = B("base64") THEN DecodesTo(Base64Decode(msg.body))
    ELSE IF encoding = B("quoted-printable") THEN DecodesTo(QPDecode(msg.body))
    ELSE IF encoding \in {B("7bit"), B("8bit"), <<>>}
         THEN perr = NoErr /\ ~email.Content.nil /\ email.Content.data = msg.body
    ELSE perr.kind = "unknown encoding" /\ email.Content.nil

\* C14: decodeContent dispatches on the Content-Transfer-Encoding compared
\* case-insensitively: base64 and quoted-printable decode the stream, 7bit,
\* 8bit and the empty value pass the bytes through unchanged, every other
\* value gives the unknown-encoding error and no reader.
C14_DispatchOnTransferEncoding ==
    DefaultCaseReturned => DocumentedDispatch(ToLower(msg.cte))

\* a Quoted-Printable body, so spelled, has been decoded
C14_Witness ==
    /\ DefaultCaseReturned
    /\ msg.cte = B("Quoted-Printable")
    /\ msg.body = B("=F4a")
    /\ perr = NoErr
    /\ email.Content.data = <<244, 97>>

\* the pieces of header value h between semicolons, trimmed, the empty ones left out
RECURSIVE DocumentedParams(_)
DocumentedParams(pieces) ==
    IF pieces = <<>> THEN <<>>
    ELSE (IF TrimSpace(pieces[1]) = <<>> THEN <<>> ELSE <<TrimSpace(pieces[1])>>)
         \o DocumentedParams(Tail(pieces))

HasKey(p) == \E i \in 1..Len(p) : p[i] = chEq
KeyOf(p) == ToLower(Split(p, chEq)[1])

\* piece i of ps is the media type, a piece without a key, or the first
\* piece with its key
FirstOfItsKey(ps, i) ==
    HasKey(ps[i]) => \A j \in 1..(i - 1) : HasKey(ps[j]) => KeyOf(ps[j]) # KeyOf(ps[i])

\* the pieces from the i-th on that survive, in their order
RECURSIVE Survivors(_, _)
Survivors(ps, i) ==
    IF i > Len(ps) THEN <<>>
    ELSE (IF FirstOfItsKey(ps, i) THEN <<ps[i]>> ELSE <<>>) \o Survivors(ps, i + 1)

DocumentedSanitized(h) ==
    Join(Survivors(DocumentedParams(Split(h, chSemicolon)), 1), B("; "))

\* C15: sanitizeContentTypeHeader keeps, of the parameters with one key
\* compared case-insensitively, only the first, whatever the case or quoting
\* of the later ones, keeps the media type and the surviving parameters in
\* their order joined by "; ", and sanitizing its result changes nothing.
C15_SanitizeKeepsFirstAndIsIdempotent ==
    mode = "sanitize" =>
        \A i \in 1..Len(sanitized) :
            sanitized[i] = IF i = 1 THEN DocumentedSanitized(ctHeader) ELSE sanitized[i - 1]

\* a duplicate in another case and quoted was dropped, and the second call
\* returned what it was given
C15_Witness ==
    /\ mode = "sanitize"
    /\ ctHeader = B("text/plain;charset=utf-8;Charset=\"UTF-8\"")
    /\ sanitized = <<B("text/plain; charset=utf-8"), B("text/plain; charset=utf-8")>>

\* attachment i of the result carries a synthesized filename
IsFallbackName(i) == HasPrefix(email.Attachments[i].Filename, AttachmentPrefix)

\* C16: the synthesized fallback filenames of one parse are pairwise distinct.
C16_FallbackFilenamesAreUnique ==
    Succeeded =>
        \A i, j \in 1..Len(email.Attachments) :
            (i < j /\ IsFallbackName(i) /\ IsFallbackName(j))
                => email.Attachments[i].Filename # email.Attachments[j].Filename

\* reading the body of a top-level text/plain message fails
PlainBodyFails ==
    /\ mode = "parse" /\ ~msg.unreadable /\ msg.bad
    /\ ~TopType.err /\ TopType.type = contentTypeTextPlain

\* C17: when reading the body of a top-level text/plain message fails,
\* ParseEmail returns an error, whatever the Content-Transfer-Encoding, and
\* no TextBody built from the bytes read so far.
C17_ReadFailureIsReturned ==
    (ParseReturned /\ PlainBodyFails) => (perr # NoErr /\ email.TextBody = <<>>)

\* the first part of a multipart/mixed message is an attachment with a
\* filename and a media type other than application/octet-stream
NamedAttachmentFirst ==
    /\ ~TopType.err /\ TopType.type = contentTypeMultipartMixed
    /\ Len(msg.parts) >= 1
    /\ ~msg.parts[1].broken
    /\ ~PartMediaType(msg.parts[1]).err
    /\ PartMediaType(msg.parts[1]).type \notin
           {OctetStream, contentTypeTextPlain, contentTypeTextHtml,
            contentTypeMultipartAlternative, contentTypeMultipartRelated}
    /\ msg.parts[1].filename # <<>>

\* the complete decoded payload of part p as NextPart hands it out
PayloadOf(p) == ReadAll(DecodeContent(p.body, p.cte, p.ctype).reader)

\* C18: reading the Data of an Attachment after ParseEmail has returned
\* yields the complete decoded payload of its part, also for an attachment
\* with a filename, a media type other than application/octet-stream and no
\* Content-Transfer-Encoding; advancing the multipart reader does not empty it.
C18_DataIsCompleteAfterReturn ==
    (Succeeded /\ NamedAttachmentFirst)
        => /\ Len(email.Attachments) >= 1
           /\ ReadAll(email.Attachments[1].Data) = PayloadOf(NextPart(msg.parts[1]))

\* the charset a content-type string declares after "; charset=": the value
\* up to the next parameter, unquoted, in lower case; 0 when it is none of
\* the four
DeclaredCharset(ct) ==
    IF Contains(ct, B("; charset="))
    THEN CharsetIndex(ToLower(Trim(Split(SplitSeq(ct, B("; charset="))[2], chSemicolon)[1],
                                   ByteSet(" \"'\n\r"))))
    ELSE 0

\* the documented text of leaf p: its transfer-decoded bytes, transcoded
\* from the charset it declares, without one trailing newline
DocumentedText(p) ==
    TrimSuffix(ReadAll(Reader(FALSE, DecodeContent(p.body, p.cte, <<>>).reader.data,
                              DeclaredCharset(p.ctype))), LF)

\* C19: a text leaf whose Content-Type declares one of the four charsets
\* after "; charset=" is transcoded wherever the parameter stands, also when
\* further parameters follow it; with another or no charset the bytes are
\* kept.  (Checked on the one text/plain leaf of a multipart/mixed or
\* multipart/alternative body.)
C19_CharsetIsFoundAmongParameters ==
    (Succeeded /\ OneTextLeaf /\ TopType.type # contentTypeMultipartRelated
       /\ PartMediaType(msg.parts[1]).type = contentTypeTextPlain)
        => email.TextBody = DocumentedText(NextPart(msg.parts[1]))

\* C20: every parse of a finite message ends with ParseEmail returning, an
\* Email or the first error met: no parse ends in any other way.
C20_ParseEndsByReturning == mode = "parse" => pc # "panicked"

\* a plain value: it does not start with the KOI8-R marker in any letter
\* case, and mime.WordDecoder.Decode accepts none of its tokens
PlainValue(s) ==
    /\ ~HasPrefix(ToLower(s), Koi8Marker)
    /\ \A i \in 1..Len(Split(s, 32)) : ~IsEncodedWord(Split(s, 32)[i])

\* C21: decodeMimeSentence is the identity on plain values: a value that
\* does not start with "=?koi8-r" and has no encoded word among its
\* space-separated tokens is returned as it is, leading, trailing and
\* repeated spaces and the empty value included.
C21_IdentityOnPlainValues ==
    (SentenceReturned /\ PlainValue(sIn)) => (~sOut.panic /\ sOut.str = sIn)

\* a value with two leading spaces and a token of the shape of an encoded
\* word that Decode rejects came back as it was
C21_Witness ==
    /\ SentenceReturned /\ sOut.path = "general"
    /\ sIn = B("  =?utf-8?X?a?=")
    /\ sOut.str = sIn
====
